---- MODULE Spec2Model ----
(***************************************************************************)
(* PremScout front end: the lineup optimizer of TeamOfTheWeek              *)
(* (getBestEleven and the figures derived from its result), the image      *)
(* fallback cursor of FifaCard, and the table engine of App.               *)
(*                                                                         *)
(* predicted_points and now_cost are JavaScript numbers; the model uses    *)
(* integers (tenths of a point would do as well), which keeps sums exact.  *)
(***************************************************************************)
EXTENDS Integers, Sequences, FiniteSets, TLC

(***************************************************************************)
(* Bounds of the model.                                                    *)
(***************************************************************************)
\* longest roster whose players are enumerated freely (any role, any score)
MaxFree == 3
\* number of times TeamOfTheWeek renders (each render calls getBestEleven)
MaxRenders == 2
\* longest image chain a card is given
MaxChain == 3
\* longest roster the table is given besides the full squad
MaxTable == 3
\* re-sort timers that may be pending at once
MaxTimers == 1
\* longest batch of raw records drawn from PairPool
MaxRaw == 2
\* times a mounted card is handed a different player
MaxResets == 1
\* fetchData runs: the one of the mount and the Retry clicks after it
MaxRuns == 3
\* leading entries of columnConfig the column toggles are observed on
MaxColumns == 12

VARIABLES
    players,        \* TeamOfTheWeek props.players: the roster (data.players)
    pc,             \* position inside one render of TeamOfTheWeek
    buckets,        \* getBestEleven locals gkp, def, mid, fwd
    fi,             \* index of the formation the for-loop is at (1-based)
    bestPoints,     \* getBestEleven local bestPoints
    bestTeam,       \* getBestEleven local bestTeam: <<>> is null, <<t>> a team
    bestEleven,     \* const bestEleven = getBestEleven(players); <<>> before
    totalPoints,    \* const totalPoints
    totalCost,      \* const totalCost
    averagePoints,  \* const averagePoints, kept as the fraction [num, den]
    renders,        \* completed renders of TeamOfTheWeek
    prevEleven,     \* bestEleven of the render before the last one (history)
    \* FifaCard
    imageSources,       \* player.imageSources: the chain, a sequence of references
    resolves,           \* which references load (the pattern of load failures)
    currentImageIndex,  \* useState(0), 0-based as in the code
    imageLoading,       \* useState(true)
    allImagesFailed,    \* useState(false)
    imageLoaded,        \* useState(false)
    rendered,           \* the state values the last committed render closed over
    img,                \* the <img> element: its src (NoRef when not rendered), status
    firstImage,         \* the preload Image of the effect: "none", "loading", "done"
    attempted,          \* references a load was started for (history)
    shownLoaded,        \* reference whose <img> load event fired, NoRef if none (history)
    resets,             \* times the effect re-ran for a different player
    stale,              \* preload Images of earlier players still in flight
    \* App: the table engine (data is `players`, loaded or still null)
    loaded,             \* data !== null
    filteredData,       \* useState<ApiResponse | null>: <<>> is null, <<rows>> a view
    teamFilter,         \* useState('')
    positionFilter,     \* useState('')
    searchFilter,       \* useState('')
    sortKey,            \* useState('predicted_points')
    sortOrder,          \* useState('desc')
    timers,             \* pending setTimeout callbacks: the closure each captured
    lastApplied,        \* closure of the last applyFiltersToData call (history)
    probe,              \* the closure whose views are compared (chosen at start)
    probeRows,          \* rows of the first call made with `probe` (history)
    probeSeen,          \* calls made with `probe`: "never", "once", "again" (history)
    sortArg,            \* argument of the last handleSort call, "" before any (history)
    \* fetchData: the normalization pass players = players.map(...)
    rawPlayers,         \* `players` before the map: the parsed records
    normPlayers,        \* the records the map callback has returned so far
    mapPc,              \* "idle", "map" while the map runs, "done" after it
    \* App: fetchData and the screens
    teams,              \* useState<string[]>([])
    loading,            \* useState(true)
    error,              \* useState<string | null>(null): NoError is null
    fetchPc,            \* the await the running fetchData is at, "idle" if none runs
    runs,               \* fetchData calls so far
    primaryFailed,      \* the inner try of this run threw (history)
    csvRequested,       \* this run requested the raw CSV (history)
    csvFailed,          \* the raw CSV request of this run failed (history)
    \* App: the column toggles
    visibleColumns,     \* useState<Set<SortKey>>
    lastToggle,         \* argument of the last toggleColumn call, "" before any (history)
    prevVisible         \* visibleColumns before the last toggleColumn call (history)

lineupVars == <<players, pc, buckets, fi, bestPoints, bestTeam, bestEleven,
                totalPoints, totalCost, averagePoints, renders, prevEleven>>

cardVars == <<imageSources, resolves, currentImageIndex, imageLoading,
              allImagesFailed, imageLoaded, rendered, img, firstImage,
              attempted, shownLoaded, resets, stale>>

appVars == <<loaded, filteredData, teamFilter, positionFilter, searchFilter,
             sortKey, sortOrder, timers, lastApplied, probe, probeRows,
             probeSeen, sortArg>>

normVars == <<rawPlayers, normPlayers, mapPc>>

\* TeamOfTheWeek's own state: lineupVars without the roster
renderVars == <<pc, buckets, fi, bestPoints, bestTeam, bestEleven,
                totalPoints, totalCost, averagePoints, renders, prevEleven>>

fetchVars == <<teams, loading, error, fetchPc, runs, primaryFailed,
               csvRequested, csvFailed>>

columnVars == <<visibleColumns, lastToggle, prevVisible>>

vars == <<lineupVars, cardVars, appVars, normVars, fetchVars, columnVars>>

(***************************************************************************)
(* Sequences helpers (Array.prototype.filter / slice / reduce / sort).     *)
(***************************************************************************)
Min(a, b) == IF a < b THEN a ELSE b

\* Array.prototype.slice(0, n)
Slice(s, n) == SubSeq(s, 1, Min(n, Len(s)))

\* text is a sequence of UTF-16 code units: "Ab" is <<65, 98>>
\* String.prototype.toLowerCase on A-Z
ToLowerCase(s) ==
    [i \in 1..Len(s) |-> IF s[i] >= 65 /\ s[i] <= 90 THEN s[i] + 32 ELSE s[i]]

\* String.prototype.includes
Includes(s, t) ==
    \E i \in 0..(Len(s) - Len(t)) : SubSeq(s, i + 1, i + Len(t)) = t

\* a < b on two strings: code unit by code unit, a proper prefix is smaller
RECURSIVE TextLess(_, _)
TextLess(a, b) ==
    IF b = <<>> THEN FALSE
    ELSE IF a = <<>> THEN TRUE
    ELSE IF Head(a) # Head(b) THEN Head(a) < Head(b)
    ELSE TextLess(Tail(a), Tail(b))

\* the columns whose values are strings
TextKeys == {"name", "team"}

\* av < bv for the values of column `key`
Less(key, av, bv) == IF key \in TextKeys THEN TextLess(av, bv) ELSE av < bv

\* getBestEleven's compare function
PointsDesc == [kind |-> "pointsDesc"]

\* TableOrder with the order taken as ascending always
TableOrderAscending(key, order) ==
    [kind |-> "table", sortKey |-> key, sortOrder |-> "asc"]

\* applyFiltersToData's compare function for a sort key and order
TableOrder(key, order) == [kind |-> "table", sortKey |-> key, sortOrder |-> order]

\* A compare function, named by data.  "pointsDesc" is getBestEleven's
\* (a, b) => b.predicted_points - a.predicted_points; "table" is the one of
\* App.tsx 303-309 (every row of the model has every column, so ?? 0 never
\* applies).
Compare(cmp, a, b) ==
    IF cmp.kind = "pointsDesc"
    THEN b.predicted_points - a.predicted_points
    ELSE LET av == a[cmp.sortKey]
             bv == b[cmp.sortKey]
         IN  IF Less(cmp.sortKey, av, bv)
             THEN (IF cmp.sortOrder = "asc" THEN -1 ELSE 1)
             ELSE IF Less(cmp.sortKey, bv, av)
             THEN (IF cmp.sortOrder = "asc" THEN 1 ELSE -1)
             ELSE 0

\* InsertSorted with x put before the elements it ties with
RECURSIVE InsertSortedBeforeTies(_, _, _)
InsertSortedBeforeTies(s, x, cmp) ==
    IF s = <<>> THEN <<x>>
    ELSE IF Compare(cmp, Head(s), x) >= 0 THEN <<x>> \o s
         ELSE <<Head(s)>> \o InsertSortedBeforeTies(Tail(s), x, cmp)

\* insertion step of a stable sort: x goes after every element that does not
\* compare greater than it (Array.prototype.sort is stable since ES2019)
RECURSIVE InsertSorted(_, _, _)
InsertSorted(s, x, cmp) ==
    IF s = <<>> THEN <<x>>
    ELSE IF Compare(cmp, Head(s), x) > 0 THEN <<x>> \o s
         ELSE <<Head(s)>> \o InsertSorted(Tail(s), x, cmp)

\* Array.prototype.sort(compareFn)
RECURSIVE SortWith(_, _)
SortWith(s, cmp) ==
    IF s = <<>> THEN <<>>
    ELSE InsertSorted(SortWith(SubSeq(s, 1, Len(s) - 1), cmp), s[Len(s)], cmp)

\* reduce((sum, player) => sum + player.predicted_points, 0)
RECURSIVE SumPoints(_)
SumPoints(s) ==
    IF s = <<>> THEN 0 ELSE Head(s).predicted_points + SumPoints(Tail(s))

\* reduce((sum, player) => sum + player.now_cost, 0)
RECURSIVE SumCost(_)
SumCost(s) ==
    IF s = <<>> THEN 0 ELSE Head(s).now_cost + SumCost(Tail(s))

(***************************************************************************)
(* getBestEleven, TeamOfTheWeek.tsx 36-93.                                 *)
(***************************************************************************)
\* Bucket with the role code compared without regard to letter case
BucketIgnoringCase(ps, code) ==
    LET Upper(c) == IF c = "gkp" THEN "GKP" ELSE c
        IsCode(p) == Upper(p.position) = code
    IN  SortWith(SelectSeq(ps, IsCode), PointsDesc)

\* players.filter(p => p.position === code).sort(...)
Bucket(ps, code) ==
    LET IsCode(p) == p.position = code
    IN  SortWith(SelectSeq(ps, IsCode), PointsDesc)

\* the four sorted buckets gkp, def, mid, fwd
Buckets(ps) ==
    [gkp |-> Bucket(ps, "GKP"), def |-> Bucket(ps, "DEF"),
     mid |-> Bucket(ps, "MID"), fwd |-> Bucket(ps, "FWD")]

\* validFormations with 3-5-2 given four midfielders
validFormationsTypo ==
    << [name |-> "3-4-3", def |-> 3, mid |-> 4, fwd |-> 3],
       [name |-> "3-5-2", def |-> 3, mid |-> 4, fwd |-> 2],
       [name |-> "4-3-3", def |-> 4, mid |-> 3, fwd |-> 3],
       [name |-> "4-4-2", def |-> 4, mid |-> 4, fwd |-> 2],
       [name |-> "4-5-1", def |-> 4, mid |-> 5, fwd |-> 1],
       [name |-> "5-3-2", def |-> 5, mid |-> 3, fwd |-> 2],
       [name |-> "5-4-1", def |-> 5, mid |-> 4, fwd |-> 1] >>

validFormations ==
    << [name |-> "3-4-3", def |-> 3, mid |-> 4, fwd |-> 3],
       [name |-> "3-5-2", def |-> 3, mid |-> 5, fwd |-> 2],
       [name |-> "4-3-3", def |-> 4, mid |-> 3, fwd |-> 3],
       [name |-> "4-4-2", def |-> 4, mid |-> 4, fwd |-> 2],
       [name |-> "4-5-1", def |-> 4, mid |-> 5, fwd |-> 1],
       [name |-> "5-3-2", def |-> 5, mid |-> 3, fwd |-> 2],
       [name |-> "5-4-1", def |-> 5, mid |-> 4, fwd |-> 1] >>

NFormations == Len(validFormations)

\* the if of the loop body: enough players for this formation
Feasible(b, f) ==
    /\ Len(b.gkp) >= 1
    /\ Len(b.def) >= f.def
    /\ Len(b.mid) >= f.mid
    /\ Len(b.fwd) >= f.fwd

\* MakeTeam with two keepers taken
MakeTeamTwoKeepers(b, f) ==
    [gkp |-> Slice(b.gkp, 2), def |-> Slice(b.def, f.def),
     mid |-> Slice(b.mid, f.mid), fwd |-> Slice(b.fwd, f.fwd),
     formation |-> f.name]

\* MakeTeam with the defenders cut by the midfielder quota
MakeTeamMidForDef(b, f) ==
    [gkp |-> Slice(b.gkp, 1), def |-> Slice(b.def, f.mid),
     mid |-> Slice(b.mid, f.mid), fwd |-> Slice(b.fwd, f.fwd),
     formation |-> f.name]

\* const team = { gkp: gkp.slice(0, 1), def: def.slice(0, formation.def), ... }
MakeTeam(b, f) ==
    [gkp |-> Slice(b.gkp, 1), def |-> Slice(b.def, f.def),
     mid |-> Slice(b.mid, f.mid), fwd |-> Slice(b.fwd, f.fwd),
     formation |-> f.name]

\* [...team.gkp, ...team.def, ...team.mid, ...team.fwd]
Squad(t) == t.gkp \o t.def \o t.mid \o t.fwd

\* FallbackTeam with the buckets returned whole
FallbackTeamUnsliced(b) ==
    [gkp |-> b.gkp, def |-> b.def, mid |-> b.mid, fwd |-> b.fwd,
     formation |-> "4-4-2"]

\* the object after `bestTeam ||`
FallbackTeam(b) ==
    [gkp |-> Slice(b.gkp, 1), def |-> Slice(b.def, 4),
     mid |-> Slice(b.mid, 4), fwd |-> Slice(b.fwd, 2),
     formation |-> "4-4-2"]

\* ReturnValue with the fallback tagged with no catalog formation
ReturnValueUntagged(bt, b) ==
    IF bt # <<>> THEN bt[1] ELSE [FallbackTeam(b) EXCEPT !.formation = "none"]

\* return bestTeam || { ... }
ReturnValue(bt, b) == IF bt # <<>> THEN bt[1] ELSE FallbackTeam(b)

(***************************************************************************)
(* Rosters the optimizer is run on.  A player record carries the fields    *)
(* getBestEleven, the derived figures and the table read; the name is made *)
(* from the player's index in the roster, which keeps equal-score players  *)
(* apart.                                                                  *)
(***************************************************************************)
\* "A", "B", ... by roster index
NameOf(i) == <<64 + i>>

\* prices cycle through three values so that cost and score differ
CostOf(i) == 4 + (i % 3)

Player(i, code, pts) ==
    [name |-> NameOf(i), team |-> <<>>, position |-> code,
     predicted_points |-> pts, now_cost |-> CostOf(i)]

\* role codes of freely enumerated players; "gkp" is a code no bucket accepts
FreeCodes == {"GKP", "DEF", "MID", "FWD", "gkp"}
FreeScores == {-1, 2}

\* every roster of at most MaxFree players over FreeCodes x FreeScores
FreeRosters ==
    UNION { { [i \in 1..n |-> Player(i, c[i][1], c[i][2])] :
                c \in [1..n -> FreeCodes \X FreeScores] } : n \in 0..MaxFree }

\* the squad of the worked scenario, per role, best first
PoolGkp == <<5, 3>>
PoolDef == <<6, 5, 4, 3, 2>>
PoolMid == <<8, 7, 6, 5, 4>>
PoolFwd == <<9, 6, 3>>

Reverse(s) == [i \in 1..Len(s) |-> s[Len(s) + 1 - i]]

\* the first n scores of a pool, best first or worst first, rescaled
Take(pool, n, rev, scale, shift) ==
    LET t == [i \in 1..n |-> scale * pool[i] - shift]
    IN  IF rev THEN Reverse(t) ELSE t

\* keepers, then defenders, midfielders, forwards, numbered in roster order
SquadRoster(g, d, m, f) ==
    LET codes  == [i \in 1..Len(g) |-> "GKP"] \o [i \in 1..Len(d) |-> "DEF"]
                  \o [i \in 1..Len(m) |-> "MID"] \o [i \in 1..Len(f) |-> "FWD"]
        scores == g \o d \o m \o f
    IN  [i \in 1..Len(scores) |-> Player(i, codes[i], scores[i])]

Scales == {0, 1}
Shifts == {0, 6, -1}

\* squads cut from the scenario's pools: any number of players per role,
\* listed best first or worst first, scores scaled by 0 or 1 and shifted
\* down by 0 or 6 or up by 1 (scale 0 makes every score of a squad equal)
SquadRosters ==
    { SquadRoster(Take(PoolGkp, ng, rev, sc, sh), Take(PoolDef, nd, rev, sc, sh),
                  Take(PoolMid, nm, rev, sc, sh), Take(PoolFwd, nf, rev, sc, sh)) :
        <<ng, nd, nm, nf, rev, sc, sh>> \in
            (0..Len(PoolGkp)) \X (0..Len(PoolDef)) \X (0..Len(PoolMid))
            \X (0..Len(PoolFwd)) \X BOOLEAN \X Scales \X Shifts }

Rosters == FreeRosters \cup SquadRosters

(***************************************************************************)
(* TeamOfTheWeek: one render is the call of getBestEleven (its loop taken  *)
(* one formation at a time) followed by the derived figures.               *)
(***************************************************************************)
\* TeamOfTheWeek before its first render
NotRendered ==
    /\ pc = "idle"
    /\ buckets = Buckets(<<>>)
    /\ fi = 1
    /\ bestPoints = 0
    /\ bestTeam = <<>>
    /\ bestEleven = <<>>
    /\ totalPoints = 0
    /\ totalCost = 0
    /\ averagePoints = [num |-> 0, den |-> 11]
    /\ renders = 0
    /\ prevEleven = <<>>

InitLineup ==
    /\ players \in Rosters
    /\ NotRendered

\* Call with bestPoints kept from the call before
CallKeepsBestPoints ==
    /\ pc \in {"idle", "done"}
    /\ renders < MaxRenders
    /\ buckets' = Buckets(players)
    /\ bestTeam' = <<>>
    /\ fi' = 1
    /\ pc' = "loop"
    /\ UNCHANGED <<players, bestPoints, bestEleven, totalPoints, totalCost,
                   averagePoints, renders, prevEleven>>
    /\ UNCHANGED <<cardVars, appVars, normVars, fetchVars, columnVars>>

\* lines 38-56: the component renders and getBestEleven starts
Call ==
    /\ pc \in {"idle", "done"}
    /\ renders < MaxRenders
    /\ buckets' = Buckets(players)
    /\ bestPoints' = 0
    /\ bestTeam' = <<>>
    /\ fi' = 1
    /\ pc' = "loop"
    /\ UNCHANGED <<players, bestEleven, totalPoints, totalCost, averagePoints,
                   renders, prevEleven>>
    /\ UNCHANGED <<cardVars, appVars, normVars, fetchVars, columnVars>>

\* lines 58-84: one iteration of `for (const formation of validFormations)`
TestFormation ==
    /\ pc = "loop"
    /\ fi <= NFormations
    /\ LET formation == validFormations[fi]
           team      == MakeTeam(buckets, formation)
           points    == SumPoints(Squad(team))
       IN  \/ /\ ~Feasible(buckets, formation)
              /\ UNCHANGED <<bestPoints, bestTeam>>
           \/ /\ Feasible(buckets, formation)
              /\ points > bestPoints
              /\ bestPoints' = points
              /\ bestTeam' = <<team>>
           \/ /\ Feasible(buckets, formation)
              /\ ~(points > bestPoints)
              /\ UNCHANGED <<bestPoints, bestTeam>>
    /\ fi' = fi + 1
    /\ UNCHANGED <<players, pc, buckets, bestEleven, totalPoints, totalCost,
                   averagePoints, renders, prevEleven>>
    /\ UNCHANGED <<cardVars, appVars, normVars, fetchVars, columnVars>>

\* AveragePoints with the number of selected players as the divisor
AveragePointsOverSelected(total, eleven) ==
    [num |-> total, den |-> Len(Squad(eleven))]

\* const averagePoints = totalPoints / 11, kept as a fraction
AveragePoints(total, eleven) == [num |-> total, den |-> 11]

\* lines 86-110: getBestEleven returns and the figures are derived
Return ==
    /\ pc = "loop"
    /\ fi > NFormations
    /\ LET eleven == ReturnValue(bestTeam, buckets)
       IN  /\ bestEleven' = <<eleven>>
           /\ totalPoints' = SumPoints(Squad(eleven))
           /\ totalCost' = SumCost(Squad(eleven))
           /\ averagePoints' = AveragePoints(SumPoints(Squad(eleven)), eleven)
    /\ prevEleven' = bestEleven
    /\ renders' = renders + 1
    /\ pc' = "done"
    /\ UNCHANGED <<players, buckets, fi, bestPoints, bestTeam>>
    /\ UNCHANGED <<cardVars, appVars, normVars, fetchVars, columnVars>>

(***************************************************************************)
(* FifaCard, components/FifaCard.tsx 20-91 (App.tsx 912-960 holds the same *)
(* component without imageLoading).  React state is what the setters last  *)
(* wrote; `rendered` is what the last committed render closed over, which  *)
(* is what handleImageError reads.  An update made by a callback is        *)
(* committed by a later Render step: the preload callbacks run outside     *)
(* React and the <img> events are not discrete events, so React 18 batches *)
(* their updates and renders in a later task, and another image callback   *)
(* may run before it.  A reference either loads for every attempt or fails *)
(* for every attempt (`resolves`).                                         *)
(***************************************************************************)
\* references are named 1..n; NoRef stands for the empty string ''
NoRef == 0

\* a chain lists its references in order
Chains == { [i \in 1..n |-> i] : n \in 0..MaxChain }

\* imageSources[i] || '' with the code's 0-based index
RefAt(chain, i) == IF i >= 0 /\ i < Len(chain) THEN chain[i + 1] ELSE NoRef

\* the state values a render closes over
Snapshot ==
    [currentImageIndex |-> currentImageIndex, imageLoading |-> imageLoading,
     allImagesFailed |-> allImagesFailed, imageLoaded |-> imageLoaded]

\* shouldShowImage && currentImageUrl, lines 90-99: the src of the <img> the
\* render puts in the DOM, NoRef when it renders the placeholder div instead
ImgSrcOf(chain, snap) ==
    IF Len(chain) > 0 /\ ~snap.allImagesFailed
    THEN RefAt(chain, snap.currentImageIndex)
    ELSE NoRef

NoImg == [src |-> NoRef, status |-> "none"]

\* the first render and the effect of lines 29-51: the state keeps its
\* initial values, the preload of imageSources[0] starts, and the <img>
\* starts loading imageSources[0]
InitCard ==
    /\ imageSources \in Chains
    /\ resolves \in [1..Len(imageSources) -> BOOLEAN]
    /\ currentImageIndex = 0
    /\ imageLoading = TRUE
    /\ allImagesFailed = FALSE
    /\ imageLoaded = FALSE
    /\ rendered = [currentImageIndex |-> 0, imageLoading |-> TRUE,
                   allImagesFailed |-> FALSE, imageLoaded |-> FALSE]
    /\ img = IF Len(imageSources) > 0
             THEN [src |-> imageSources[1], status |-> "loading"]
             ELSE NoImg
    /\ firstImage = IF Len(imageSources) > 0 THEN "loading" ELSE "none"
    /\ attempted = IF Len(imageSources) > 0 THEN {imageSources[1]} ELSE {}
    /\ shownLoaded = NoRef
    /\ resets = 0
    /\ stale = {}

\* firstImage.onload, line 38
PreloadLoad ==
    /\ firstImage = "loading"
    /\ resolves[imageSources[1]]
    /\ firstImage' = "done"
    /\ imageLoaded' = TRUE
    /\ UNCHANGED <<imageSources, resolves, currentImageIndex, imageLoading,
                   allImagesFailed, rendered, img, attempted, shownLoaded>>
    /\ UNCHANGED <<resets, stale>>
    /\ UNCHANGED <<lineupVars, appVars, normVars, fetchVars, columnVars>>

\* firstImage.onerror, lines 39-48
PreloadError ==
    /\ firstImage = "loading"
    /\ ~resolves[imageSources[1]]
    /\ firstImage' = "done"
    /\ IF Len(imageSources) > 1
       THEN /\ currentImageIndex' = 1
            /\ imageLoading' = TRUE
            /\ UNCHANGED allImagesFailed
       ELSE /\ allImagesFailed' = TRUE
            /\ imageLoading' = FALSE
            /\ UNCHANGED currentImageIndex
    /\ UNCHANGED <<imageSources, resolves, imageLoaded, rendered, img,
                   attempted, shownLoaded>>
    /\ UNCHANGED <<resets, stale>>
    /\ UNCHANGED <<lineupVars, appVars, normVars, fetchVars, columnVars>>

\* the <img> fires load: handleImageLoad, lines 53-56
ImgLoad ==
    /\ img.status = "loading"
    /\ resolves[img.src]
    /\ img' = [img EXCEPT !.status = "loaded"]
    /\ imageLoading' = FALSE
    /\ imageLoaded' = TRUE
    /\ shownLoaded' = img.src
    /\ UNCHANGED <<imageSources, resolves, currentImageIndex, allImagesFailed,
                   rendered, firstImage, attempted>>
    /\ UNCHANGED <<resets, stale>>
    /\ UNCHANGED <<lineupVars, appVars, normVars, fetchVars, columnVars>>

\* the <img> fires error: handleImageError, lines 58-74.  The test reads the
\* render's currentImageIndex; prev => prev + 1 applies to the latest state.
ImgError ==
    /\ img.status = "loading"
    /\ ~resolves[img.src]
    /\ img' = [img EXCEPT !.status = "failed"]
    /\ IF rendered.currentImageIndex < Len(imageSources) - 1
       THEN /\ currentImageIndex' = currentImageIndex + 1
            /\ imageLoading' = TRUE
            /\ UNCHANGED allImagesFailed
       ELSE /\ allImagesFailed' = TRUE
            /\ imageLoading' = FALSE
            /\ UNCHANGED currentImageIndex
    /\ UNCHANGED <<imageSources, resolves, imageLoaded, rendered, firstImage,
                   attempted, shownLoaded>>
    /\ UNCHANGED <<resets, stale>>
    /\ UNCHANGED <<lineupVars, appVars, normVars, fetchVars, columnVars>>

\* React commits a render of the changed state, lines 76-146: handlers close
\* over the new values; an <img> whose src changed starts a new load (the
\* browser drops the old one), an unchanged src keeps its element as it is
Render ==
    /\ rendered # Snapshot
    /\ rendered' = Snapshot
    /\ LET src == ImgSrcOf(imageSources, Snapshot)
       IN  /\ img' = IF src = NoRef THEN NoImg
                     ELSE IF img.src = src THEN img
                     ELSE [src |-> src, status |-> "loading"]
           /\ attempted' = IF src = NoRef THEN attempted ELSE attempted \cup {src}
    /\ UNCHANGED <<imageSources, resolves, currentImageIndex, imageLoading,
                   allImagesFailed, imageLoaded, firstImage, shownLoaded>>
    /\ UNCHANGED <<resets, stale>>
    /\ UNCHANGED <<lineupVars, appVars, normVars, fetchVars, columnVars>>

\* the parent hands the mounted card another player (the cards are keyed by
\* slot, TeamOfTheWeek.tsx:155-191): the render with the new props still reads
\* the old state, then the effect of lines 29-51 re-runs: it resets the four
\* state values and starts a preload of the new imageSources[0].  The effect
\* has no cleanup, so the earlier preload stays in flight with its closure.
PlayerChange ==
    /\ resets < MaxResets
    /\ resets' = resets + 1
    /\ \E chain \in Chains : \E res \in [1..Len(chain) -> BOOLEAN] :
          LET src == ImgSrcOf(chain, Snapshot)
          IN  /\ imageSources' = chain
              /\ resolves' = res
              /\ rendered' = Snapshot
              /\ img' = IF src = NoRef THEN NoImg
                        ELSE [src |-> src, status |-> "loading"]
              /\ firstImage' = IF Len(chain) > 0 THEN "loading" ELSE "none"
              /\ attempted' = (IF src = NoRef THEN {} ELSE {src})
                                 \cup (IF Len(chain) > 0 THEN {chain[1]} ELSE {})
    /\ stale' = IF firstImage = "loading"
                THEN stale \cup {[len |-> Len(imageSources),
                                  ok |-> resolves[imageSources[1]]]}
                ELSE stale
    /\ currentImageIndex' = 0
    /\ imageLoading' = TRUE
    /\ allImagesFailed' = FALSE
    /\ imageLoaded' = FALSE
    /\ shownLoaded' = NoRef
    /\ UNCHANGED <<lineupVars, appVars, normVars, fetchVars, columnVars>>

\* firstImage.onload of an earlier player's preload, line 38
StalePreloadLoad ==
    /\ \E s \in stale :
          /\ s.ok
          /\ stale' = stale \ {s}
    /\ imageLoaded' = TRUE
    /\ UNCHANGED <<imageSources, resolves, currentImageIndex, imageLoading,
                   allImagesFailed, rendered, img, firstImage, attempted,
                   shownLoaded, resets>>
    /\ UNCHANGED <<lineupVars, appVars, normVars, fetchVars, columnVars>>

\* firstImage.onerror of an earlier player's preload, lines 39-48: the test
\* reads the imageSources of the render the effect ran in
StalePreloadError ==
    /\ \E s \in stale :
          /\ ~s.ok
          /\ stale' = stale \ {s}
          /\ IF s.len > 1
             THEN /\ currentImageIndex' = 1
                  /\ imageLoading' = TRUE
                  /\ UNCHANGED allImagesFailed
             ELSE /\ allImagesFailed' = TRUE
                  /\ imageLoading' = FALSE
                  /\ UNCHANGED currentImageIndex
    /\ UNCHANGED <<imageSources, resolves, imageLoaded, rendered, img,
                   firstImage, attempted, shownLoaded, resets>>
    /\ UNCHANGED <<lineupVars, appVars, normVars, fetchVars, columnVars>>

\* the lineup side while a card is observed: nothing rendered yet
LineupIdle ==
    /\ players = <<>>
    /\ NotRendered

\* the card side while the optimizer is observed: a card with an empty chain
CardIdle ==
    /\ imageSources = <<>>
    /\ resolves = <<>>
    /\ currentImageIndex = 0
    /\ imageLoading = TRUE
    /\ allImagesFailed = FALSE
    /\ imageLoaded = FALSE
    /\ rendered = [currentImageIndex |-> 0, imageLoading |-> TRUE,
                   allImagesFailed |-> FALSE, imageLoaded |-> FALSE]
    /\ img = NoImg
    /\ firstImage = "none"
    /\ attempted = {}
    /\ shownLoaded = NoRef
    /\ resets = 0
    /\ stale = {}

(***************************************************************************)
(* App: the table engine, App.tsx 84-91 and 271-323.  A handler reads the  *)
(* state values of the render it was created in; clicks are discrete       *)
(* events, so React has committed every earlier update before a handler    *)
(* runs and the handler reads the current state.  The callback handleSort  *)
(* hands to setTimeout is created inside that handler call, so it keeps    *)
(* the values of the render the click happened in.  Handlers run between   *)
(* renders, never inside the loop of getBestEleven.                        *)
(***************************************************************************)
SortKeys == {"name", "predicted_points"}

\* the state values applyFiltersToData reads from its render
Closure ==
    [teamFilter |-> teamFilter, positionFilter |-> positionFilter,
     searchFilter |-> searchFilter, sortKey |-> sortKey, sortOrder |-> sortOrder]

\* the values of the first render, lines 85-91
FirstClosure ==
    [teamFilter |-> <<>>, positionFilter |-> "", searchFilter |-> <<>>,
     sortKey |-> "predicted_points", sortOrder |-> "desc"]

\* ApplyFiltersToData with the search applied to the whole roster
ApplyFiltersToDataSearchAlone(sourceData, c) ==
    LET TeamOk(p) == Includes(ToLowerCase(p.team), ToLowerCase(c.teamFilter))
        PositionOk(p) == p.position = c.positionFilter
        SearchOk(p) == Includes(ToLowerCase(p.name), ToLowerCase(c.searchFilter))
        byTeam == IF c.teamFilter # <<>>
                  THEN SelectSeq(sourceData, TeamOk) ELSE sourceData
        byPosition == IF c.positionFilter # ""
                      THEN SelectSeq(byTeam, PositionOk) ELSE byTeam
        bySearch == IF c.searchFilter # <<>>
                    THEN SelectSeq(sourceData, SearchOk) ELSE byPosition
    IN  SortWith(bySearch, TableOrder(c.sortKey, c.sortOrder))

\* the rows applyFiltersToData passes to setFilteredData, lines 289-309
ApplyFiltersToData(sourceData, c) ==
    LET TeamOk(p) == Includes(ToLowerCase(p.team), ToLowerCase(c.teamFilter))
        PositionOk(p) == p.position = c.positionFilter
        SearchOk(p) == Includes(ToLowerCase(p.name), ToLowerCase(c.searchFilter))
        byTeam == IF c.teamFilter # <<>>
                  THEN SelectSeq(sourceData, TeamOk) ELSE sourceData
        byPosition == IF c.positionFilter # ""
                      THEN SelectSeq(byTeam, PositionOk) ELSE byTeam
        bySearch == IF c.searchFilter # <<>>
                    THEN SelectSeq(byPosition, SearchOk) ELSE byPosition
    IN  SortWith(bySearch, TableOrder(c.sortKey, c.sortOrder))

\* SourceAfterApply when filteredPlayers starts as sourceData.players itself:
\* with no active filter the in-place sort then runs on the roster array
SourceAfterApplyAliased(sourceData, c) ==
    IF c.teamFilter = <<>> /\ c.positionFilter = "" /\ c.searchFilter = <<>>
    THEN SortWith(sourceData, TableOrder(c.sortKey, c.sortOrder))
    ELSE sourceData

\* sourceData.players after the call: line 289 copies the array and filter
\* returns new arrays, so the in-place sort of line 303 never runs on it
SourceAfterApply(sourceData, c) == sourceData

\* one call of applyFiltersToData(data) from a render whose values are c
ApplyWith(c) ==
    LET rows == ApplyFiltersToData(players, c)
    IN  /\ players' = SourceAfterApply(players, c)
        /\ filteredData' = <<rows>>
        /\ lastApplied' = <<c>>
        /\ probeRows' = IF c = probe /\ probeSeen = "never" THEN <<rows>>
                        ELSE probeRows
        /\ probeSeen' = IF c # probe THEN probeSeen
                        ELSE IF probeSeen = "never" THEN "once" ELSE "again"

\* rows the table is given: "Ab" and "aBc", two forwards level on points
\* whose teams "Xy" and "xy" differ in case only, and a midfielder of team
\* "Zz" who shares the name "Ab"
TablePool ==
    << [name |-> <<65, 98>>, team |-> <<88, 121>>, position |-> "FWD",
        predicted_points |-> 7, now_cost |-> 5],
       [name |-> <<97, 66, 99>>, team |-> <<120, 121>>, position |-> "FWD",
        predicted_points |-> 7, now_cost |-> 4],
       [name |-> <<65, 98>>, team |-> <<90, 122>>, position |-> "MID",
        predicted_points |-> 3, now_cost |-> 5] >>

\* every listing of at most MaxTable different pool rows
TableRosters ==
    UNION { { [i \in 1..n |-> TablePool[f[i]]] :
                f \in { g \in [1..n -> 1..Len(TablePool)] :
                          \A i, j \in 1..n : i # j => g[i] # g[j] } } :
            n \in 0..Min(MaxTable, Len(TablePool)) }

\* the whole squad, listed best first or worst first
FullSquads ==
    { SquadRoster(Take(PoolGkp, Len(PoolGkp), rev, 1, 0),
                  Take(PoolDef, Len(PoolDef), rev, 1, 0),
                  Take(PoolMid, Len(PoolMid), rev, 1, 0),
                  Take(PoolFwd, Len(PoolFwd), rev, 1, 0)) : rev \in BOOLEAN }

AppRosters == TableRosters \cup FullSquads

\* the closures a run of sort clicks can produce
SortClosures ==
    { [FirstClosure EXCEPT !.sortKey = k, !.sortOrder = o] :
        k \in SortKeys, o \in {"asc", "desc"} }

\* App before fetchData has answered: data and filteredData are null
TableIdle ==
    /\ loaded = FALSE
    /\ filteredData = <<>>
    /\ teamFilter = <<>>
    /\ positionFilter = ""
    /\ searchFilter = <<>>
    /\ sortKey = "predicted_points"
    /\ sortOrder = "desc"
    /\ timers = <<>>
    /\ lastApplied = <<>>
    /\ probe = FirstClosure
    /\ probeRows = <<>>
    /\ probeSeen = "never"
    /\ sortArg = ""

\* App after fetchData has stored the roster, lines 253-257: the first view
\* is made by the first render's applyFiltersToData
InitTable ==
    /\ loaded = TRUE
    /\ teamFilter = <<>>
    /\ positionFilter = ""
    /\ searchFilter = <<>>
    /\ sortKey = "predicted_points"
    /\ sortOrder = "desc"
    /\ timers = <<>>
    /\ filteredData = <<ApplyFiltersToData(players, FirstClosure)>>
    /\ lastApplied = <<FirstClosure>>
    /\ probe \in SortClosures
    /\ probeRows = IF probe = FirstClosure
                   THEN <<ApplyFiltersToData(players, FirstClosure)>> ELSE <<>>
    /\ probeSeen = IF probe = FirstClosure THEN "once" ELSE "never"
    /\ sortArg = ""

\* HandleSort with the order kept when the key is switched
HandleSortKeepsOrder ==
    /\ pc \in {"idle", "done"}
    /\ Len(timers) < MaxTimers
    /\ \E key \in SortKeys :
          /\ sortArg' = key
          /\ IF sortKey = key
             THEN /\ sortOrder' = IF sortOrder = "asc" THEN "desc" ELSE "asc"
                  /\ UNCHANGED sortKey
             ELSE /\ sortKey' = key
                  /\ UNCHANGED sortOrder
    /\ timers' = IF loaded THEN Append(timers, Closure) ELSE timers
    /\ UNCHANGED <<loaded, filteredData, teamFilter, positionFilter,
                   searchFilter, lastApplied, probe, probeRows, probeSeen>>
    /\ UNCHANGED <<lineupVars, cardVars, normVars, fetchVars, columnVars>>

\* handleSort(key), lines 271-286
HandleSort ==
    /\ pc \in {"idle", "done"}
    /\ Len(timers) < MaxTimers
    /\ \E key \in SortKeys :
          /\ sortArg' = key
          /\ IF sortKey = key
             THEN /\ sortOrder' = IF sortOrder = "asc" THEN "desc" ELSE "asc"
                  /\ UNCHANGED sortKey
             ELSE /\ sortKey' = key
                  /\ sortOrder' = "desc"
    /\ timers' = IF loaded THEN Append(timers, Closure) ELSE timers
    /\ UNCHANGED <<loaded, filteredData, teamFilter, positionFilter,
                   searchFilter, lastApplied, probe, probeRows, probeSeen>>
    /\ UNCHANGED <<lineupVars, cardVars, normVars, fetchVars, columnVars>>

\* the callback of line 284 runs: applyFiltersToData(data) of the click's render
TimerFire ==
    /\ pc \in {"idle", "done"}
    /\ timers # <<>>
    /\ ApplyWith(Head(timers))
    /\ timers' = Tail(timers)
    /\ UNCHANGED <<loaded, teamFilter, positionFilter, searchFilter, sortKey,
                   sortOrder, probe, sortArg>>
    /\ UNCHANGED <<renderVars, cardVars, normVars, fetchVars, columnVars>>

\* handleFilter, lines 319-323
HandleFilter ==
    /\ pc \in {"idle", "done"}
    /\ loaded
    /\ ApplyWith(Closure)
    /\ UNCHANGED <<loaded, teamFilter, positionFilter, searchFilter, sortKey,
                   sortOrder, timers, probe, sortArg>>
    /\ UNCHANGED <<renderVars, cardVars, normVars, fetchVars, columnVars>>

\* texts typed into the search box: nothing, "C", "AB"
SearchTexts == {<<>>, <<67>>, <<65, 66>>}

\* the options of the team select, lines 427-432: '' and the roster's teams
TeamChoices(ps) == {<<>>} \cup { ps[i].team : i \in 1..Len(ps) }

\* the options of the position select, lines 434-440
PositionChoices == {"", "GKP", "DEF", "MID", "FWD"}

\* the search input changes, line 424
SetSearchFilter ==
    /\ pc \in {"idle", "done"}
    /\ \E text \in SearchTexts : text # searchFilter /\ searchFilter' = text
    /\ UNCHANGED <<loaded, filteredData, teamFilter, positionFilter, sortKey,
                   sortOrder, timers, lastApplied, probe, probeRows, probeSeen,
                   sortArg>>
    /\ UNCHANGED <<lineupVars, cardVars, normVars, fetchVars, columnVars>>

\* the team select changes, line 427
SetTeamFilter ==
    /\ pc \in {"idle", "done"}
    /\ \E team \in TeamChoices(players) : team # teamFilter /\ teamFilter' = team
    /\ UNCHANGED <<loaded, filteredData, positionFilter, searchFilter, sortKey,
                   sortOrder, timers, lastApplied, probe, probeRows, probeSeen,
                   sortArg>>
    /\ UNCHANGED <<lineupVars, cardVars, normVars, fetchVars, columnVars>>

\* the position select changes, line 434
SetPositionFilter ==
    /\ pc \in {"idle", "done"}
    /\ \E code \in PositionChoices :
          code # positionFilter /\ positionFilter' = code
    /\ UNCHANGED <<loaded, filteredData, teamFilter, searchFilter, sortKey,
                   sortOrder, timers, lastApplied, probe, probeRows, probeSeen,
                   sortArg>>
    /\ UNCHANGED <<lineupVars, cardVars, normVars, fetchVars, columnVars>>

(***************************************************************************)
(* fetchData's normalization pass, App.tsx 178-236.  A parsed record is a  *)
(* JavaScript object whose fields may be absent and carry whatever JSON or *)
(* the CSV parser produced, so a field value is tagged with its type.      *)
(* Text is a sequence of code units; a URL built from a template is kept   *)
(* by its template name and the text spliced into it.                      *)
(***************************************************************************)
Undefined == [t |-> "undefined"]
Num(n) == [t |-> "number", v |-> n]
Str(s) == [t |-> "string", v |-> s]

\* JavaScript truthiness, as tested by `if (p.image_url_primary)`
Truthy(x) ==
    CASE x.t = "undefined" -> FALSE
      [] x.t = "number" -> x.v # 0
      [] x.t = "string" -> x.v # <<>>

\* the text a template literal or encodeURIComponent makes of a value
\* (numbers of the model have one digit)
ToText(x) ==
    CASE x.t = "undefined" -> <<117, 110, 100, 101, 102, 105, 110, 101, 100>>
      [] x.t = "number" -> <<48 + x.v>>
      [] x.t = "string" -> x.v

\* code units encodeURIComponent leaves as they are: A-Z a-z 0-9 - _ . ! ~ * ' ( )
Unreserved ==
    (65..90) \cup (97..122) \cup (48..57) \cup {45, 95, 46, 33, 126, 42, 39, 40, 41}

\* an upper-case hexadecimal digit
HexDigit(n) == IF n < 10 THEN 48 + n ELSE 55 + n

\* encodeURIComponent on ASCII text: %XX for every other code unit
RECURSIVE EncodeURIComponent(_)
EncodeURIComponent(s) ==
    IF s = <<>> THEN <<>>
    ELSE (IF Head(s) \in Unreserved THEN <<Head(s)>>
          ELSE <<37, HexDigit(Head(s) \div 16), HexDigit(Head(s) % 16)>>)
         \o EncodeURIComponent(Tail(s))

\* the role codes as text
CodeGKP == <<71, 75, 80>>
CodeDEF == <<68, 69, 70>>
CodeMID == <<77, 73, 68>>
CodeFWD == <<70, 87, 68>>

\* getPositionColor, lines 186-194
GetPositionColor(position) ==
    IF position = Str(CodeGKP) THEN [bg |-> "f56565", text |-> "ffffff"]
    ELSE IF position = Str(CodeDEF) THEN [bg |-> "38a169", text |-> "ffffff"]
    ELSE IF position = Str(CodeMID) THEN [bg |-> "3182ce", text |-> "ffffff"]
    ELSE IF position = Str(CodeFWD) THEN [bg |-> "d69e2e", text |-> "ffffff"]
    ELSE [bg |-> "718096", text |-> "ffffff"]

\* GenerateFallbackAvatar seeded with the team instead of the name
GenerateFallbackAvatarByTeam(p) ==
    LET colors == GetPositionColor(p.position)
    IN  [t |-> "string", url |-> "dicebear",
         seed |-> EncodeURIComponent(ToText(p.team)),
         backgroundColor |-> colors.bg, textColor |-> colors.text]

\* generateFallbackAvatar, lines 180-198: the returned URL (the initials it
\* computes first are not used)
GenerateFallbackAvatar(p) ==
    LET colors == GetPositionColor(p.position)
    IN  [t |-> "string", url |-> "dicebear",
         seed |-> EncodeURIComponent(ToText(p.name)),
         backgroundColor |-> colors.bg, textColor |-> colors.text]

\* the three templated URLs of lines 220-224, in the order pushed
TemplatedSources(code) ==
    << [t |-> "string", url |-> "weserv-250x250", code |-> ToText(code)],
       [t |-> "string", url |-> "premierleague-110x140", code |-> ToText(code)],
       [t |-> "string", url |-> "shirt", code |-> ToText(code)] >>

\* ImageSourcesOf without the final push of the fallback avatar
ImageSourcesOfNoAvatar(p) ==
    LET explicit ==
            (IF Truthy(p.image_url_primary) THEN <<p.image_url_primary>> ELSE <<>>)
            \o (IF Truthy(p.image_url_secondary) THEN <<p.image_url_secondary>> ELSE <<>>)
            \o (IF Truthy(p.image_url_tertiary) THEN <<p.image_url_tertiary>> ELSE <<>>)
    IN  IF Truthy(p.player_code) /\ Len(explicit) = 0
        THEN TemplatedSources(p.player_code) ELSE explicit

\* the imageSources array of lines 201-228
ImageSourcesOf(p) ==
    LET explicit ==
            (IF Truthy(p.image_url_primary) THEN <<p.image_url_primary>> ELSE <<>>)
            \o (IF Truthy(p.image_url_secondary) THEN <<p.image_url_secondary>> ELSE <<>>)
            \o (IF Truthy(p.image_url_tertiary) THEN <<p.image_url_tertiary>> ELSE <<>>)
        withCode == IF Truthy(p.player_code) /\ Len(explicit) = 0
                    THEN explicit \o TemplatedSources(p.player_code)
                    ELSE explicit
    IN  Append(withCode, GenerateFallbackAvatar(p))

\* the fields the map callback adds to the spread record
AddedFields == {"imageSources", "currentImageIndex", "imageError"}

\* the object the map callback returns, lines 230-235
NormalizeRecord(p) ==
    [f \in DOMAIN p \cup AddedFields |->
        IF f = "imageSources" THEN ImageSourcesOf(p)
        ELSE IF f = "currentImageIndex" THEN Num(0)
        ELSE IF f = "imageError" THEN FALSE
        ELSE p[f]]

\* a parsed record with the fields the front end reads
RawRecord(name, team, position, points, primary, secondary, tertiary, code) ==
    [name |-> name, team |-> team, position |-> position,
     predicted_points |-> points, image_url_primary |-> primary,
     image_url_secondary |-> secondary, image_url_tertiary |-> tertiary,
     player_code |-> code]

\* field values of the parsed records: "A b" or no name; the four role
\* codes, a lower-case code or none; a number, a non-numeric text or nothing
\* for predicted_points; image references "1", "2", "3", an empty one
\* for the secondary; no player_code, 0 or 5
RawNames == {Undefined, Str(<<65, 32, 98>>)}
RawTeams == {Undefined, Str(<<88, 121>>)}
RawPositions ==
    {Undefined, Str(CodeGKP), Str(CodeDEF), Str(CodeMID), Str(CodeFWD),
     Str(<<103, 107, 112>>)}
RawPoints == {Undefined, Num(7), Str(<<120>>)}
RawPrimary == {Undefined, Str(<<49>>)}
RawSecondary == {Undefined, Str(<<>>), Str(<<50>>)}
RawTertiary == {Undefined, Str(<<51>>)}
RawCodes == {Undefined, Num(0), Num(5)}

\* every parsed record over those values
RawRecords ==
    { RawRecord(x[1], x[2], x[3], x[4], x[5], x[6], x[7], x[8]) :
        x \in RawNames \X RawTeams \X RawPositions \X RawPoints \X RawPrimary
              \X RawSecondary \X RawTertiary \X RawCodes }

\* the records longer batches are made of: they differ in name, team, role
\* code (none, GKP or lower-case gkp), predicted_points and primary reference
PairPool ==
    { RawRecord(x[1], x[2], x[3], x[4], x[5], Undefined, Undefined, Undefined) :
        x \in RawNames \X RawTeams
              \X {Undefined, Str(CodeGKP), Str(<<103, 107, 112>>)}
              \X {Undefined, Num(7)} \X RawPrimary }

\* the batches fetchData parsed: empty, any one record, or up to MaxRaw
\* records of PairPool
RawBatches ==
    {<<>>} \cup { <<r>> : r \in RawRecords }
    \cup UNION { [1..n -> PairPool] : n \in 2..MaxRaw }

\* no fetch has parsed anything yet
NormIdle ==
    /\ rawPlayers = <<>>
    /\ normPlayers = <<>>
    /\ mapPc = "idle"

\* fetchData has parsed a batch and reaches line 178
InitNorm ==
    /\ rawPlayers \in RawBatches
    /\ normPlayers = <<>>
    /\ mapPc = "map"

\* the map callback runs on the next record, lines 178-235
MapRecord ==
    /\ mapPc = "map"
    /\ Len(normPlayers) < Len(rawPlayers)
    /\ normPlayers' =
          Append(normPlayers, NormalizeRecord(rawPlayers[Len(normPlayers) + 1]))
    /\ UNCHANGED <<rawPlayers, mapPc>>
    /\ UNCHANGED <<lineupVars, cardVars, appVars, fetchVars, columnVars>>

\* the map returns and `players` is the normalized roster, line 236
MapDone ==
    /\ mapPc = "map"
    /\ Len(normPlayers) = Len(rawPlayers)
    /\ mapPc' = "done"
    /\ UNCHANGED <<rawPlayers, normPlayers>>
    /\ UNCHANGED <<lineupVars, cardVars, appVars, fetchVars, columnVars>>

(***************************************************************************)
(* fetchData, App.tsx 105-265, and the screens of lines 367-385.           *)
(***************************************************************************)
\* error === null
NoError == "null"

\* a null entry of a parsed players array
Null == [null |-> TRUE]

\* Array.from(new Set(players.map(p => p.team))).filter(Boolean).sort(),
\* line 241: the distinct non-empty teams in code unit order
RECURSIVE SortedTexts(_)
SortedTexts(S) ==
    IF S = {} THEN <<>>
    ELSE LET m == CHOOSE x \in S : \A y \in S \ {x} : TextLess(x, y)
         IN  <<m>> \o SortedTexts(S \ {m})

TeamsOf(ps) == SortedTexts({ ps[i].team : i \in 1..Len(ps) } \ {<<>>})

\* the players arrays a source answers with: the table rosters, and two
\* arrays that hold a null entry
Payloads ==
    TableRosters \cup {<<Null>>, <<TablePool[1], Null>>}

\* .filter(Boolean) on the parsed CSV rows, line 172
FilterBoolean(rows) ==
    LET Kept(r) == r # Null
    IN  SelectSeq(rows, Kept)

\* App before fetchData has answered: the loading screen
FetchIdle ==
    /\ teams = <<>>
    /\ loading = TRUE
    /\ error = NoError
    /\ fetchPc = "idle"
    /\ runs = 0
    /\ primaryFailed = FALSE
    /\ csvRequested = FALSE
    /\ csvFailed = FALSE

\* App after a fetchData run has stored the roster, lines 253-264
FetchSettled ==
    /\ teams = TeamsOf(players)
    /\ loading = FALSE
    /\ error = NoError
    /\ fetchPc = "idle"
    /\ runs = 1
    /\ primaryFailed = FALSE
    /\ csvRequested = FALSE
    /\ csvFailed = FALSE

\* lines 106-121 (or 141): loading and error are set and the primary source
\* is requested: the local API in development, /predictions.json otherwise
FetchData ==
    /\ fetchPc = "idle"
    /\ runs < MaxRuns
    /\ runs' = runs + 1
    /\ loading' = TRUE
    /\ error' = NoError
    /\ fetchPc' = "primary"
    /\ primaryFailed' = FALSE
    /\ csvRequested' = FALSE
    /\ csvFailed' = FALSE
    /\ UNCHANGED teams
    /\ UNCHANGED <<lineupVars, cardVars, appVars, normVars, columnVars>>

\* useEffect(() => { fetchData() }, []), lines 267-269
Mount ==
    /\ runs = 0
    /\ FetchData

\* the Retry button of the error screen, lines 367-385
Retry ==
    /\ runs > 0
    /\ ~loading
    /\ error # NoError
    /\ FetchData

\* the outer catch and finally, lines 259-264
Fails(message) ==
    /\ error' = message
    /\ loading' = FALSE
    /\ fetchPc' = "idle"
    /\ UNCHANGED <<teams, runs>>
    /\ UNCHANGED <<lineupVars, cardVars, appVars, normVars, columnVars>>

\* lines 176-264 on the parsed players: the map callback reads p.name and
\* throws a TypeError on a null entry, which the outer catch turns into the
\* error message; otherwise setData, setTeams, applyFiltersToData of the
\* run's render, then finally.  The rows keep the table's fields; the fields
\* the map adds are those of NormalizeRecord.
Process(raw) ==
    IF \E i \in 1..Len(raw) : raw[i] = Null
    THEN /\ error' = "Cannot read properties of null"
         /\ loading' = FALSE
         /\ fetchPc' = "idle"
         /\ UNCHANGED <<teams, runs>>
         /\ UNCHANGED <<lineupVars, cardVars, appVars, normVars, columnVars>>
    ELSE /\ players' = raw
         /\ loaded' = TRUE
         /\ teams' = TeamsOf(raw)
         /\ filteredData' = <<ApplyFiltersToData(raw, Closure)>>
         /\ lastApplied' = <<Closure>>
         /\ probeRows' = IF Closure = probe /\ probeSeen = "never"
                         THEN <<ApplyFiltersToData(raw, Closure)>>
                         ELSE probeRows
         /\ probeSeen' = IF Closure # probe THEN probeSeen
                         ELSE IF probeSeen = "never" THEN "once" ELSE "again"
         /\ loading' = FALSE
         /\ fetchPc' = "idle"
         /\ UNCHANGED <<teamFilter, positionFilter, searchFilter, sortKey,
                        sortOrder, timers, probe, sortArg, error, runs>>
         /\ UNCHANGED <<renderVars, cardVars, normVars, columnVars>>

\* the inner catch, lines 162-165: the raw CSV is requested
RequestCsv ==
    /\ primaryFailed' = TRUE
    /\ csvRequested' = TRUE
    /\ fetchPc' = "csv"
    /\ UNCHANGED <<teams, loading, error, runs, csvFailed>>
    /\ UNCHANGED <<lineupVars, cardVars, appVars, normVars, columnVars>>

\* await fetch(apiUrl) / fetch(localUrl) settles, lines 120-160: a rejected
\* fetch or a response that is not ok throws inside the inner try; an ok
\* response goes on to parse its body
PrimaryResponse ==
    /\ fetchPc = "primary"
    /\ \E outcome \in {"rejected", "notOk", "ok"} :
          IF outcome = "ok"
          THEN /\ fetchPc' = "primaryJson"
               /\ UNCHANGED <<teams, loading, error, runs, primaryFailed,
                              csvRequested, csvFailed>>
               /\ UNCHANGED <<lineupVars, cardVars, appVars, normVars, columnVars>>
          ELSE RequestCsv

\* await apiResp.json() / local.json() settles, lines 124-135 and 146-157:
\* a body that is no JSON rejects inside the inner try; otherwise players =
\* json.players || [] and the run leaves the inner try
PrimaryJson ==
    /\ fetchPc = "primaryJson"
    /\ \/ RequestCsv
       \/ /\ UNCHANGED <<primaryFailed, csvRequested, csvFailed>>
          /\ \E raw \in Payloads : Process(raw)

\* await fetch(RAW_CSV_URL) settles, lines 165-167: a rejected fetch or a
\* response that is not ok leaves through the outer catch
CsvResponse ==
    /\ fetchPc = "csv"
    /\ \E outcome \in {"rejected", "notOk", "ok"} :
          CASE outcome = "rejected" ->
                  /\ csvFailed' = TRUE
                  /\ UNCHANGED <<primaryFailed, csvRequested>>
                  /\ Fails("Failed to fetch")
            [] outcome = "notOk" ->
                  /\ csvFailed' = TRUE
                  /\ UNCHANGED <<primaryFailed, csvRequested>>
                  /\ Fails("Failed to fetch predictions (raw)")
            [] outcome = "ok" ->
                  /\ fetchPc' = "csvText"
                  /\ UNCHANGED <<teams, loading, error, runs, primaryFailed,
                                 csvRequested, csvFailed>>
                  /\ UNCHANGED <<lineupVars, cardVars, appVars, normVars, columnVars>>

\* await resp.text() settles, lines 168-173: the body is parsed and the
\* parsed rows pass .filter(Boolean)
CsvText ==
    /\ fetchPc = "csvText"
    /\ \/ /\ csvFailed' = TRUE
          /\ UNCHANGED <<primaryFailed, csvRequested>>
          /\ Fails("Failed to fetch")
       \/ /\ UNCHANGED <<primaryFailed, csvRequested, csvFailed>>
          /\ \E rows \in Payloads : Process(FilterBoolean(rows))

(***************************************************************************)
(* toggleColumn, App.tsx 344-354, and the column state of lines 93-99.     *)
(***************************************************************************)
\* the keys of columnConfig, lines 54-74, in their order
columnConfig ==
    << "name", "team", "position", "next_opponent", "predicted_points",
       "now_cost", "points_per_game", "form", "total_points", "minutes",
       "goals_scored", "assists", "expected_goals", "clean_sheets",
       "saves_per_90", "yellow_cards", "red_cards", "opponent_difficulty",
       "is_home", "chance_of_playing_this_round" >>

\* the columns the toggles are observed on
Columns == { columnConfig[i] : i \in 1..Min(MaxColumns, Len(columnConfig)) }

\* new Set([...]) of lines 95-98
InitialColumns ==
    { "name", "team", "position", "next_opponent", "predicted_points",
      "now_cost", "points_per_game", "form", "total_points", "minutes" }

\* the first render: the initial set, no toggle yet
ColumnsInit ==
    /\ visibleColumns = InitialColumns
    /\ lastToggle = ""
    /\ prevVisible = InitialColumns

\* Toggled with the name column treated like every other column
ToggledAnyColumn(visible, key) ==
    IF key \in visible THEN visible \ {key} ELSE visible \cup {key}

\* the set toggleColumn(key) leaves in visibleColumns, lines 345-353
Toggled(visible, key) ==
    IF key \in visible
    THEN IF key = "name" THEN visible ELSE visible \ {key}
    ELSE visible \cup {key}

\* toggleColumn(key), lines 344-354; each checkbox change is rendered
\* before the next one is handled
ToggleColumn ==
    /\ \E key \in Columns :
          /\ lastToggle' = key
          /\ visibleColumns' = Toggled(visibleColumns, key)
    /\ prevVisible' = visibleColumns
    /\ UNCHANGED <<lineupVars, cardVars, appVars, normVars, fetchVars>>

\* App with the roster loaded and shown: TeamOfTheWeek renders
Init ==
    /\ InitLineup /\ CardIdle /\ NormIdle
    /\ InitTable /\ probe = FirstClosure
    /\ FetchSettled /\ ColumnsInit

Next == Call \/ TestFormation \/ Return

Spec == Init /\ [][Next]_vars

InitCardSpec ==
    LineupIdle /\ InitCard /\ TableIdle /\ NormIdle /\ FetchIdle /\ ColumnsInit

NextCard ==
    \/ PreloadLoad \/ PreloadError \/ ImgLoad \/ ImgError \/ Render
    \/ PlayerChange \/ StalePreloadLoad \/ StalePreloadError

SpecCard == InitCardSpec /\ [][NextCard]_vars

\* the card with every started load resolving and every pending update
\* rendered: the browser fires load or error for each request, and React
\* runs the render it scheduled
SpecCardLive ==
    /\ InitCardSpec
    /\ [][NextCard]_vars
    /\ WF_vars(PreloadLoad) /\ WF_vars(PreloadError)
    /\ WF_vars(ImgLoad) /\ WF_vars(ImgError) /\ WF_vars(Render)
    /\ WF_vars(StalePreloadLoad) /\ WF_vars(StalePreloadError)

\* App with the roster loaded: TeamOfTheWeek renders, the table is sorted
InitApp ==
    /\ players \in AppRosters /\ NotRendered /\ CardIdle /\ InitTable /\ NormIdle
    /\ FetchSettled /\ ColumnsInit

NextApp == Call \/ TestFormation \/ Return \/ HandleSort \/ TimerFire \/ HandleFilter

SpecApp == InitApp /\ [][NextApp]_vars

\* App with a small roster loaded: the filters are set and applied
InitFilter ==
    /\ players \in TableRosters
    /\ NotRendered /\ CardIdle /\ NormIdle
    /\ FetchSettled /\ ColumnsInit
    /\ InitTable
    /\ probe = FirstClosure

NextFilter ==
    SetSearchFilter \/ SetTeamFilter \/ SetPositionFilter \/ HandleFilter

SpecFilter == InitFilter /\ [][NextFilter]_vars

\* role codes of the rosters the role mapping is observed on: the four codes,
\* a lower-case one and '' for a record without role code
DrawnCodes == FreeCodes \cup {""}

\* every roster of at most MaxFree players over DrawnCodes, equal scores
RoleRosters ==
    UNION { { [i \in 1..n |-> Player(i, c[i], 2)] : c \in [1..n -> DrawnCodes] } :
            n \in 0..MaxFree }

\* App with such a roster loaded: TeamOfTheWeek renders, the position
\* select is changed and the filters applied
InitRoles ==
    /\ players \in RoleRosters
    /\ NotRendered /\ CardIdle /\ NormIdle
    /\ FetchSettled /\ ColumnsInit
    /\ InitTable
    /\ probe = FirstClosure

NextRoles == Call \/ TestFormation \/ Return \/ SetPositionFilter \/ HandleFilter

SpecRoles == InitRoles /\ [][NextRoles]_vars

\* fetchData's normalization pass over a parsed batch
\* fetchData is past its awaits and about to map the parsed records
FetchMapping ==
    /\ teams = <<>>
    /\ loading = TRUE
    /\ error = NoError
    /\ fetchPc = "idle"
    /\ runs = 1
    /\ primaryFailed = FALSE
    /\ csvRequested = FALSE
    /\ csvFailed = FALSE

InitNormSpec ==
    LineupIdle /\ CardIdle /\ TableIdle /\ InitNorm /\ FetchMapping /\ ColumnsInit

NextNorm == MapRecord \/ MapDone

SpecNorm == InitNormSpec /\ [][NextNorm]_vars

\* App from its first render: the mount fetches, Retry fetches again
InitFetch ==
    /\ LineupIdle /\ CardIdle /\ TableIdle /\ NormIdle
    /\ FetchIdle /\ ColumnsInit

NextFetch ==
    Mount \/ Retry \/ PrimaryResponse \/ PrimaryJson \/ CsvResponse \/ CsvText

SpecFetch == InitFetch /\ [][NextFetch]_vars

\* App with the roster shown: the column checkboxes are changed
InitColumns ==
    /\ players \in FullSquads
    /\ NotRendered /\ CardIdle /\ InitTable /\ NormIdle
    /\ FetchSettled /\ ColumnsInit
    /\ probe = FirstClosure

NextColumns == ToggleColumn

SpecColumns == InitColumns /\ [][NextColumns]_vars

(***************************************************************************)
(* Vocabulary of the lineup claims.                                        *)
(***************************************************************************)
Done == pc = "done"

\* the lineup the last render got from getBestEleven
Eleven == bestEleven[1]

\* indices of the catalog formations the roster can fill
FeasibleIdx(ps) ==
    { i \in 1..NFormations : Feasible(Buckets(ps), validFormations[i]) }

\* aggregate of formation i's candidate lineup
CandidatePoints(ps, i) ==
    SumPoints(Squad(MakeTeam(Buckets(ps), validFormations[i])))

\* the largest candidate aggregate over the feasible formations
MaxCandidatePoints(ps) ==
    CHOOSE m \in { CandidatePoints(ps, i) : i \in FeasibleIdx(ps) } :
        \A i \in FeasibleIdx(ps) : CandidatePoints(ps, i) <= m

\* the first formation, in catalog order, that attains the largest aggregate
FirstBestIdx(ps) ==
    CHOOSE i \in FeasibleIdx(ps) :
        /\ CandidatePoints(ps, i) = MaxCandidatePoints(ps)
        /\ \A j \in FeasibleIdx(ps) :
              CandidatePoints(ps, j) = MaxCandidatePoints(ps) => i <= j

\* the catalog entry with the given name
FormationNamed(n) ==
    CHOOSE f \in { validFormations[i] : i \in 1..NFormations } : f.name = n

FormationNames == { validFormations[i].name : i \in 1..NFormations }

\* a lineup has exactly 1 keeper and f's defender/midfielder/forward counts
MeetsQuota(t, f) ==
    /\ Len(t.gkp) = 1
    /\ Len(t.def) = f.def
    /\ Len(t.mid) = f.mid
    /\ Len(t.fwd) = f.fwd

\* roster indices of the players with the given role code
IdxOf(ps, code) == { i \in 1..Len(ps) : ps[i].position = code }

RECURSIVE SetPoints(_, _)
SetPoints(ps, S) ==
    IF S = {} THEN 0
    ELSE LET i == CHOOSE x \in S : TRUE
         IN  ps[i].predicted_points + SetPoints(ps, S \ {i})

KSubsets(S, k) == { T \in SUBSET S : Cardinality(T) = k }

\* C1 (stated as claimed): when a render is done, the returned lineup's
\* aggregate is at least the candidate aggregate of every feasible formation.
C1_Optimality ==
    Done => \A i \in FeasibleIdx(players) :
                SumPoints(Squad(Eleven)) >= CandidatePoints(players, i)

\* C2 (stated as claimed): with a feasible formation, the returned lineup is
\* tagged with the first formation in catalog order whose candidate aggregate
\* is the maximum over the feasible formations.
C2_TieBreak ==
    (Done /\ FeasibleIdx(players) # {}) =>
        Eleven.formation = validFormations[FirstBestIdx(players)].name

\* C3 (stated as claimed): with a feasible formation, the returned lineup has
\* 11 players, its tagged formation is feasible, and it meets that quota.
C3_ElevenWhenFeasible ==
    (Done /\ FeasibleIdx(players) # {}) =>
        /\ Len(Squad(Eleven)) = 11
        /\ \E i \in FeasibleIdx(players) :
              /\ validFormations[i].name = Eleven.formation
              /\ MeetsQuota(Eleven, validFormations[i])

\* C4 (stated as claimed): with a feasible formation, no selection of one
\* keeper and a catalog formation's counts of distinct roster players scores
\* strictly more than the returned lineup.
C4_HighestScoringTeam ==
    (Done /\ FeasibleIdx(players) # {}) =>
        \A i \in 1..NFormations :
            \A G \in KSubsets(IdxOf(players, "GKP"), 1) :
            \A D \in KSubsets(IdxOf(players, "DEF"), validFormations[i].def) :
            \A M \in KSubsets(IdxOf(players, "MID"), validFormations[i].mid) :
            \A F \in KSubsets(IdxOf(players, "FWD"), validFormations[i].fwd) :
                SetPoints(players, G \cup D \cup M \cup F)
                    <= SumPoints(Squad(Eleven))

\* C5: if the formation the returned lineup is tagged with is feasible for
\* the roster, the lineup has exactly 1 keeper and that formation's counts.
C5_FeasibleTagMeetsQuota ==
    Done =>
        (Feasible(Buckets(players), FormationNamed(Eleven.formation))
            => MeetsQuota(Eleven, FormationNamed(Eleven.formation)))

\* a feasible tag that is not the fallback's, on a lineup the loop chose
C5_Witness ==
    /\ Done
    /\ bestTeam # <<>>
    /\ Eleven.formation = "5-4-1"
    /\ Feasible(Buckets(players), FormationNamed(Eleven.formation))
    /\ MeetsQuota(Eleven, FormationNamed("5-4-1"))
\* the set of players a slot holds
SlotSet(slot) == { slot[i] : i \in 1..Len(slot) }

\* slot holds the top min(bucket size, q) players of the role `code`: that
\* many distinct roster players of the role, best first, and no player of the
\* role left out scores more than one taken
IsTopOf(slot, ps, code, q) ==
    LET role == { ps[i] : i \in IdxOf(ps, code) }
    IN  /\ Len(slot) = Min(Cardinality(role), q)
        /\ SlotSet(slot) \subseteq role
        /\ Cardinality(SlotSet(slot)) = Len(slot)
        /\ \A i \in 1..Len(slot) - 1 :
              slot[i].predicted_points >= slot[i + 1].predicted_points
        /\ \A p \in role \ SlotSet(slot) : \A t \in SlotSet(slot) :
              p.predicted_points <= t.predicted_points

\* C6: when no catalog formation is feasible the call still runs to its
\* return, and returns a lineup tagged "4-4-2" whose slots hold the top
\* min(bucket size, q) players of each role for q = 1, 4, 4, 2.
C6_BestEffortFallback ==
    FeasibleIdx(players) = {} =>
        /\ pc = "loop" => ENABLED (TestFormation \/ Return)
        /\ Done =>
              /\ Eleven.formation = "4-4-2"
              /\ IsTopOf(Eleven.gkp, players, "GKP", 1)
              /\ IsTopOf(Eleven.def, players, "DEF", 4)
              /\ IsTopOf(Eleven.mid, players, "MID", 4)
              /\ IsTopOf(Eleven.fwd, players, "FWD", 2)

\* a fallback lineup with an empty keeper slot and fewer than 11 players,
\* cut from a bucket that holds more than the fallback takes
C6_Witness ==
    /\ Done
    /\ FeasibleIdx(players) = {}
    /\ IdxOf(players, "GKP") = {}
    /\ Eleven.gkp = <<>>
    /\ Cardinality(IdxOf(players, "DEF")) > 4
    /\ Len(Eleven.def) = 4
    /\ Len(Squad(Eleven)) < 11

\* a lineup is four slot lists of roster players plus a catalog formation name
WellFormed(e) ==
    /\ e # <<>>
    /\ DOMAIN e[1] = {"gkp", "def", "mid", "fwd", "formation"}
    /\ e[1].formation \in FormationNames
    /\ \A slot \in {e[1].gkp, e[1].def, e[1].mid, e[1].fwd} :
          /\ DOMAIN slot = 1..Len(slot)
          /\ SlotSet(slot) \subseteq { players[i] : i \in 1..Len(players) }

\* C7: the optimizer is total: a started call always has a next step until
\* it returns, a done render holds a well-formed lineup, and for the empty
\* roster that lineup has 0 players, total score 0 and total cost 0.
C7_Total ==
    /\ pc = "loop" => ENABLED (TestFormation \/ Return)
    /\ Done => WellFormed(bestEleven)
    /\ (Done /\ players = <<>>) =>
          /\ Len(Squad(Eleven)) = 0
          /\ totalPoints = 0
          /\ totalCost = 0

\* the empty roster, rendered
C7_Witness ==
    /\ Done
    /\ players = <<>>
    /\ Eleven = [gkp |-> <<>>, def |-> <<>>, mid |-> <<>>, fwd |-> <<>>,
                 formation |-> "4-4-2"]

\* the roster of the worked scenario, listed best first or worst first
ScenarioRosters ==
    { SquadRoster(Take(PoolGkp, 2, rev, 1, 0), Take(PoolDef, 5, rev, 1, 0),
                  Take(PoolMid, 5, rev, 1, 0), Take(PoolFwd, 3, rev, 1, 0)) :
        rev \in BOOLEAN }

ScenarioAggregates == <<64, 65, 62, 64, 62, 61, 60>>

\* C8: on the scenario roster the seven candidate aggregates the loop
\* computes are 64, 65, 62, 64, 62, 61, 60 in catalog order, and the render
\* ends with formation "3-5-2", aggregate 65 and 11 players.
C8_WorkedScenario ==
    players \in ScenarioRosters =>
        /\ pc = "loop" =>
              \A i \in 1..NFormations :
                  /\ Feasible(buckets, validFormations[i])
                  /\ SumPoints(Squad(MakeTeam(buckets, validFormations[i])))
                        = ScenarioAggregates[i]
        /\ Done =>
              /\ Eleven.formation = "3-5-2"
              /\ totalPoints = 65
              /\ Len(Squad(Eleven)) = 11

\* the scenario roster, listed worst first, rendered
C8_Witness ==
    /\ Done
    /\ players \in ScenarioRosters
    /\ players[1].predicted_points = 3
    /\ Eleven.formation = "3-5-2"

\* C9: getBestEleven and the table sort depend on their inputs only.  Every
\* render after the first returns the lineup the render before it returned
\* for the same roster (same players in the same slots, same formation), and
\* whenever the view was last made with the probe's filters, sort key and
\* order, its rows are the rows the first such call produced, whatever calls
\* were made in between.
C9_Determinism ==
    /\ (Done /\ renders >= 2) => bestEleven = prevEleven
    /\ lastApplied = <<probe>> => filteredData = probeRows

\* the full squad rendered twice with a lineup the loop chose, and the view
\* made again by ascending points (rows level on points) after other sorts
C9_Witness ==
    /\ Done
    /\ renders >= 2
    /\ players \in FullSquads
    /\ bestTeam # <<>>
    /\ Eleven.formation = "3-5-2"
    /\ bestEleven = prevEleven
    /\ probe = [FirstClosure EXCEPT !.sortOrder = "asc"]
    /\ probeSeen = "again"
    /\ lastApplied = <<probe>>
    /\ filteredData = probeRows
    /\ Len(filteredData[1]) = Len(players)

(***************************************************************************)
(* Vocabulary of the card claims.                                          *)
(***************************************************************************)
\* no callback is outstanding and the DOM shows the current state
Settled ==
    /\ firstImage # "loading"
    /\ img.status # "loading"
    /\ rendered = Snapshot

\* C10 (stated as claimed): a settled card that displays a loaded reference
\* displays the lowest-index reference that loads, every lower-index
\* reference having been attempted and failed; the cursor never passes a
\* reference no load was started for; and once the <img> has loaded a
\* reference the cursor stays on it.
C10_FallbackOrder ==
    /\ (Settled /\ img.status = "loaded") =>
          \A j \in 1..Len(imageSources) :
              j < img.src => (~resolves[j] /\ j \in attempted)
    /\ \A j \in 1..Len(imageSources) :
          j <= currentImageIndex => j \in attempted
    /\ shownLoaded # NoRef =>
          RefAt(imageSources, currentImageIndex) = shownLoaded

\* the generated placeholder ends the chain and loads
PlaceholderLoads ==
    /\ Len(imageSources) >= 1
    /\ resolves[Len(imageSources)]

\* C11 (stated as claimed): when the last chain entry loads, the card never
\* becomes exhausted (allImagesFailed), its cursor never leaves the chain,
\* and it eventually displays a loaded reference for good.
C11_Termination ==
    PlaceholderLoads =>
        /\ [](~allImagesFailed /\ currentImageIndex < Len(imageSources))
        /\ <>[](img.status = "loaded")

(***************************************************************************)
(* Vocabulary of the normalization claims.                                 *)
(***************************************************************************)
\* a reference is the generated placeholder
IsPlaceholder(x) == "url" \in DOMAIN x /\ x.url = "dicebear"

\* a field carries a non-empty text
Supplied(x) == x.t = "string" /\ Len(x.v) > 0

\* the explicit references of a raw record, primary first
ExplicitRefs(r) ==
    SelectSeq(<<r.image_url_primary, r.image_url_secondary,
                r.image_url_tertiary>>, Supplied)

\* C12: every normalized record has a chain of 1 to 4 references that ends
\* with the generated placeholder and starts with the record's explicit
\* references in the order primary, secondary, tertiary.
C12_ChainShape ==
    \A i \in 1..Len(normPlayers) :
        LET chain == normPlayers[i].imageSources
            explicit == ExplicitRefs(rawPlayers[i])
        IN  /\ Len(chain) >= 1
            /\ Len(chain) <= 4
            /\ IsPlaceholder(chain[Len(chain)])
            /\ \A k \in 1..Len(chain) - 1 : ~IsPlaceholder(chain[k])
            /\ Len(chain) > Len(explicit)
            /\ SubSeq(chain, 1, Len(explicit)) = explicit

\* a record with a primary and a tertiary reference and an empty secondary
\* one, normalized to primary, tertiary, placeholder
C12_Witness ==
    /\ mapPc = "done"
    /\ Len(normPlayers) = 1
    /\ rawPlayers[1].image_url_secondary = Str(<<>>)
    /\ rawPlayers[1].player_code = Num(5)
    /\ Len(normPlayers[1].imageSources) = 3
    /\ normPlayers[1].imageSources[1] = Str(<<49>>)
    /\ normPlayers[1].imageSources[2] = Str(<<51>>)
    /\ IsPlaceholder(normPlayers[1].imageSources[3])

\* the last reference of a normalized record's chain
PlaceholderOf(n) == n.imageSources[Len(n.imageSources)]

\* the colour pair of a placeholder
ColoursOf(x) == <<x.backgroundColor, x.textColor>>

\* the four recognised role codes
RoleCodes == {Str(CodeGKP), Str(CodeDEF), Str(CodeMID), Str(CodeFWD)}

\* C13: two normalized records whose raw records agree on name and role code
\* carry the same placeholder, whatever their other fields; records of the
\* same role code, and records whose role codes are both outside the four
\* recognised ones, carry the same colour pair.
C13_PlaceholderFunction ==
    \A i, j \in 1..Len(normPlayers) :
        LET ri == rawPlayers[i]
            rj == rawPlayers[j]
            xi == PlaceholderOf(normPlayers[i])
            xj == PlaceholderOf(normPlayers[j])
        IN  /\ (ri.name = rj.name /\ ri.position = rj.position) => xi = xj
            /\ ri.position = rj.position => ColoursOf(xi) = ColoursOf(xj)
            /\ (ri.position \notin RoleCodes /\ rj.position \notin RoleCodes)
                  => ColoursOf(xi) = ColoursOf(xj)

\* two keepers named "A b" that differ in team and score, normalized to the
\* same placeholder with the seed "A%20b"
C13_Witness ==
    /\ mapPc = "done"
    /\ Len(normPlayers) = 2
    /\ rawPlayers[1].name = Str(<<65, 32, 98>>)
    /\ rawPlayers[2].name = rawPlayers[1].name
    /\ rawPlayers[1].position = Str(CodeGKP)
    /\ rawPlayers[2].position = Str(CodeGKP)
    /\ rawPlayers[1].team # rawPlayers[2].team
    /\ rawPlayers[1].predicted_points # rawPlayers[2].predicted_points
    /\ PlaceholderOf(normPlayers[1]) = PlaceholderOf(normPlayers[2])
    /\ PlaceholderOf(normPlayers[1]).seed = <<65, 37, 50, 48, 98>>
    /\ ColoursOf(PlaceholderOf(normPlayers[1])) = <<"f56565", "ffffff">>

\* C14 (stated as claimed): the normalized roster holds no record whose
\* name is missing and no record whose role code is not one of the four
\* recognised codes, and it is no longer than the parsed batch.
C14_DropsMalformed ==
    /\ Len(normPlayers) <= Len(rawPlayers)
    /\ mapPc = "done" =>
          \A i \in 1..Len(normPlayers) :
              /\ normPlayers[i].name # Undefined
              /\ normPlayers[i].position \in RoleCodes

\* C15 (stated as claimed): in every normalized record predicted_points is
\* the raw number, or 0 when the raw value was absent or not a number, and
\* an absent team is the empty string.
C15_Defaults ==
    \A i \in 1..Len(normPlayers) :
        LET r == rawPlayers[i]
            n == normPlayers[i]
        IN  /\ n.predicted_points =
                  (IF r.predicted_points.t = "number"
                   THEN r.predicted_points ELSE Num(0))
            /\ r.team = Undefined => n.team = Str(<<>>)

(***************************************************************************)
(* Vocabulary of the table claims.                                         *)
(***************************************************************************)
\* the rows of the view and the closure it was made with
View == filteredData[1]
Applied == lastApplied[1]

LowerUnit(c) == IF c >= 65 /\ c <= 90 THEN c + 32 ELSE c

\* text s contains text t when letter case is ignored
ContainsIgnoringCase(s, t) ==
    \E i \in 0..(Len(s) - Len(t)) :
        \A k \in 1..Len(t) : LowerUnit(s[i + k]) = LowerUnit(t[k])

\* the three predicates of a closure; an empty filter is not active
RoleMatches(p, c) == c.positionFilter = "" \/ p.position = c.positionFilter
TeamMatches(p, c) ==
    c.teamFilter = <<>> \/ ContainsIgnoringCase(p.team, c.teamFilter)
NameMatches(p, c) ==
    c.searchFilter = <<>> \/ ContainsIgnoringCase(p.name, c.searchFilter)

\* one predicate applied to a list of rows
KeepBy(rows, kind, c) ==
    LET Ok(p) == CASE kind = "role" -> RoleMatches(p, c)
                   [] kind = "team" -> TeamMatches(p, c)
                   [] kind = "name" -> NameMatches(p, c)
    IN  SelectSeq(rows, Ok)

RowSet(rows) == { rows[i] : i \in 1..Len(rows) }

\* the orders in which the three predicates can be applied
PredicateOrders ==
    { o \in [1..3 -> {"role", "team", "name"}] :
        \A i, j \in 1..3 : i # j => o[i] # o[j] }

\* C16: the view holds exactly the roster records that satisfy every active
\* predicate of the closure it was made with, each once; applying the three
\* predicates one after another in any order gives the same records; and
\* with no active predicate the view holds every roster record.
C16_ConjunctiveFilter ==
    filteredData # <<>> =>
        /\ RowSet(View) =
              { p \in RowSet(players) :
                  RoleMatches(p, Applied) /\ TeamMatches(p, Applied)
                  /\ NameMatches(p, Applied) }
        /\ Len(View) = Cardinality(RowSet(View))
        /\ \A o \in PredicateOrders :
              RowSet(KeepBy(KeepBy(KeepBy(players, o[1], Applied), o[2],
                                   Applied), o[3], Applied)) = RowSet(View)
        /\ (Applied.positionFilter = "" /\ Applied.teamFilter = <<>>
            /\ Applied.searchFilter = <<>>) => Len(View) = Len(players)

\* "AB" searched among forwards of team "xy" in a roster of two forwards and
\* a midfielder that all match some predicate: one row passes all three
C16_Witness ==
    /\ Len(players) = 3
    /\ Applied.positionFilter = "FWD"
    /\ Applied.teamFilter = <<120, 121>>
    /\ Applied.searchFilter = <<65, 66>>
    /\ Len(View) = 2
    /\ Len(KeepBy(players, "name", Applied)) = 3
    /\ Len(KeepBy(players, "role", Applied)) = 2

\* text a comes before text b: at the first position where they differ a
\* has the smaller code unit, or a is a proper prefix of b
TextBefore(a, b) ==
    \E k \in 1..Len(b) :
        /\ \A m \in 1..k - 1 : m <= Len(a) /\ a[m] = b[m]
        /\ k > Len(a) \/ a[k] < b[k]

\* the value of column `key` in row p is smaller than in row q
KeyBefore(key, p, q) ==
    IF key \in {"name", "team"} THEN TextBefore(p[key], q[key])
    ELSE p[key] < q[key]

\* the roster records that pass the three predicates of closure c
FilteredOf(ps, c) == KeepBy(KeepBy(KeepBy(ps, "role", c), "team", c), "name", c)

\* position of a record in the roster (roster records are distinct)
RosterIndex(p) == CHOOSE i \in 1..Len(players) : players[i] = p

Flip(order) == IF order = "asc" THEN "desc" ELSE "asc"

\* a step is a handleSort call: a re-sort timer was added
SortClick == Len(timers') = Len(timers) + 1

\* C18: the sort state starts as (predicted_points, desc); a handleSort(k)
\* call with k different from the active key makes k the active key with
\* order 'desc', a call with the active key keeps it and flips the order; no
\* other step changes the sort state; the active key is always one column
\* and the order always 'asc' or 'desc'.
C18_SortStateMachine ==
    /\ (sortKey = "predicted_points" /\ sortOrder = "desc")
    /\ [](sortKey \in SortKeys /\ sortOrder \in {"asc", "desc"})
    /\ [][ /\ SortClick =>
                /\ sortArg' # sortKey => (sortKey' = sortArg' /\ sortOrder' = "desc")
                /\ sortArg' = sortKey =>
                      (sortKey' = sortKey /\ sortOrder' = Flip(sortOrder))
           /\ ~SortClick => (sortKey' = sortKey /\ sortOrder' = sortOrder)
         ]_vars

\* the key was switched to name while the order was 'asc', and the order is
\* 'desc' again
C18_Witness ==
    /\ sortArg = "name"
    /\ sortKey = "name"
    /\ sortOrder = "desc"
    /\ timers # <<>>
    /\ Head(timers).sortKey = "predicted_points"
    /\ Head(timers).sortOrder = "asc"

\* C19: no step changes the roster: data.players holds the same records in
\* the same order after every applyFiltersToData, handleSort and
\* getBestEleven step.
C19_RosterReadOnly == [][players' = players]_vars

\* the view was re-sorted into an order other than the roster's and the
\* lineup was computed, with the roster as it was listed
C19_Witness ==
    /\ Done
    /\ Len(players) = 3
    /\ probeSeen = "again"
    /\ lastApplied # <<FirstClosure>>
    /\ Len(View) = Len(players)
    /\ View # players
    /\ players # SortWith(players, TableOrder(Applied.sortKey, Applied.sortOrder))

\* sum of a numeric column over a set of records
RECURSIVE SumOver(_, _)
SumOver(S, key) ==
    IF S = {} THEN 0
    ELSE LET p == CHOOSE x \in S : TRUE
         IN  p[key] + SumOver(S \ {p}, key)

\* C20: after a render the total score is the sum of predicted_points over
\* the players of the returned lineup, each counted once, the total cost is
\* the sum of now_cost over the same players, and the average is the total
\* score over 11, whatever the number of players selected.
C20_DerivedFigures ==
    Done =>
        /\ Cardinality(SlotSet(Squad(Eleven))) = Len(Squad(Eleven))
        /\ totalPoints = SumOver(SlotSet(Squad(Eleven)), "predicted_points")
        /\ totalCost = SumOver(SlotSet(Squad(Eleven)), "now_cost")
        /\ averagePoints = [num |-> totalPoints, den |-> 11]

\* a fallback lineup of 10 players with a positive total, averaged over 11
C20_Witness ==
    /\ Done
    /\ bestTeam = <<>>
    /\ Len(Squad(Eleven)) = 10
    /\ totalPoints > 0
    /\ totalCost > totalPoints
    /\ averagePoints = [num |-> totalPoints, den |-> 11]

\* player p is ranked ahead of player q of the same role: a higher score,
\* or the same score and an earlier place in the roster
RankedAhead(p, q) ==
    \/ p.predicted_points > q.predicted_points
    \/ /\ p.predicted_points = q.predicted_points
       /\ RosterIndex(p) < RosterIndex(q)

\* the slot of the returned lineup for a role code
SlotOf(e, code) ==
    CASE code = "GKP" -> e.gkp [] code = "DEF" -> e.def
      [] code = "MID" -> e.mid [] code = "FWD" -> e.fwd

\* C21: in every slot of the returned lineup each player is ranked ahead of
\* the players after it and of every roster player of the role left out,
\* where equal scores rank by roster order: of two players tied for the last
\* spot the earlier one in the roster is selected.
C21_StableCutLine ==
    Done =>
        \A code \in {"GKP", "DEF", "MID", "FWD"} :
            LET slot == SlotOf(Eleven, code)
                role == { players[i] : i \in IdxOf(players, code) }
            IN  /\ \A i, j \in 1..Len(slot) : i < j => RankedAhead(slot[i], slot[j])
                /\ \A p \in SlotSet(slot) : \A q \in role \ SlotSet(slot) :
                      RankedAhead(p, q)

\* a lineup the loop chose from a squad whose players all score 1: the
\* three defenders taken are the first three of the five in the roster
C21_Witness ==
    /\ Done
    /\ bestTeam # <<>>
    /\ Cardinality(IdxOf(players, "DEF")) = 5
    /\ \A i \in 1..Len(players) : players[i].predicted_points = 1
    /\ Len(Eleven.def) = 3
    /\ \A i \in 1..3 : \A q \in IdxOf(players, "DEF") :
          players[q] \notin SlotSet(Eleven.def)
              => RosterIndex(Eleven.def[i]) < q

(***************************************************************************)
(* Vocabulary of the loader claims.                                        *)
(***************************************************************************)
\* loads in flight on behalf of the card: the preload Images and the <img>
InFlight ==
    (IF firstImage = "loading" THEN 1 ELSE 0)
        + (IF img.status = "loading" THEN 1 ELSE 0)
        + Cardinality(stale)

\* C22 (stated as claimed): at most one load of the card's references is in
\* flight in every reachable state of the card.
C22_OneAttemptAtATime == InFlight <= 1

\* a callback of a superseded attempt runs: the preload of an earlier player,
\* or the preload of reference 0 after the cursor has left reference 0
LateCallback ==
    \/ StalePreloadLoad
    \/ StalePreloadError
    \/ (currentImageIndex > 0 /\ (PreloadLoad \/ PreloadError))

\* C23 (stated as claimed): a late callback of a superseded attempt changes
\* none of currentImageIndex, allImagesFailed, imageLoaded, and the cursor
\* never moves backwards except by a reset.
C23_SupersededAreDead ==
    /\ [][LateCallback =>
            UNCHANGED <<currentImageIndex, allImagesFailed, imageLoaded>>]_vars
    /\ [][PlayerChange \/ currentImageIndex' >= currentImageIndex]_vars

\* C27 (stated as claimed): with a non-empty chain the cursor stays inside
\* the chain, 0 <= currentImageIndex <= imageSources.length - 1.
C27_CursorBounds ==
    Len(imageSources) > 0 =>
        (currentImageIndex >= 0 /\ currentImageIndex <= Len(imageSources) - 1)

\* a reference is one of the three templated ones
IsTemplated(x) ==
    "url" \in DOMAIN x /\ x.url \in {"weserv-250x250", "premierleague-110x140", "shirt"}

\* a reference is the named template filled with the identifier
IsTemplateOf(x, url, code) ==
    "url" \in DOMAIN x /\ x.url = url /\ x.code = ToText(code)

\* C24 (stated as claimed): a record with a numeric player_code and no
\* explicit reference gets exactly the three templated references of that
\* identifier, in the fixed order, followed by the placeholder; a record
\* with an explicit reference or without identifier gets no templated one.
C24_SynthesizedReferences ==
    \A i \in 1..Len(normPlayers) :
        LET raw == rawPlayers[i]
            chain == normPlayers[i].imageSources
            explicit == ExplicitRefs(raw)
        IN  /\ (raw.player_code.t = "number" /\ explicit = <<>>) =>
                  /\ Len(chain) = 4
                  /\ IsTemplateOf(chain[1], "weserv-250x250", raw.player_code)
                  /\ IsTemplateOf(chain[2], "premierleague-110x140", raw.player_code)
                  /\ IsTemplateOf(chain[3], "shirt", raw.player_code)
                  /\ IsPlaceholder(chain[4])
            /\ (raw.player_code.t = "undefined" \/ explicit # <<>>) =>
                  \A k \in 1..Len(chain) : ~IsTemplated(chain[k])

(***************************************************************************)
(* Vocabulary of the role claims.                                          *)
(***************************************************************************)
ExactCodes == {"GKP", "DEF", "MID", "FWD"}

\* the players of every slot of a lineup
LineupSet(e) ==
    SlotSet(e.gkp) \cup SlotSet(e.def) \cup SlotSet(e.mid) \cup SlotSet(e.fwd)

\* C25: every player of a returned lineup sits in the slot whose code is
\* exactly the player's role code, so a roster record whose code is not one
\* of 'GKP', 'DEF', 'MID', 'FWD' is in no lineup; and a view made with a
\* role filter holds only records whose code equals the selected code.
C25_ExactRoleMapping ==
    /\ Done =>
          /\ \A code \in ExactCodes :
                \A p \in SlotSet(SlotOf(Eleven, code)) : p.position = code
          /\ \A i \in 1..Len(players) :
                players[i].position \notin ExactCodes
                    => players[i] \notin LineupSet(Eleven)
    /\ (loaded /\ Applied.positionFilter # "") =>
          \A k \in 1..Len(View) : View[k].position = Applied.positionFilter

\* a roster with a 'GKP', a 'gkp' and a code-less record: the lineup has the
\* one keeper, and the view filtered by 'GKP' has the one row
C25_Witness ==
    /\ Done
    /\ Len(players) = 3
    /\ { players[i].position : i \in 1..3 } = {"GKP", "gkp", ""}
    /\ Len(Eleven.gkp) = 1
    /\ Cardinality(LineupSet(Eleven)) = 1
    /\ Applied.positionFilter = "GKP"
    /\ Len(View) = 1

\* along the rows the values of column `key` never increase when the order
\* is 'desc' and never decrease when it is 'asc'
OrderedBy(rows, key, order) ==
    \A i, j \in 1..Len(rows) :
        i < j =>
            /\ order = "desc" => ~KeyBefore(key, rows[i], rows[j])
            /\ order = "asc" => ~KeyBefore(key, rows[j], rows[i])

\* C26 (stated as claimed): whenever no re-application is pending, the rows
\* of the table are ordered by the sortKey and sortOrder the header shows.
C26_DisplayedOrder ==
    (loaded /\ timers = <<>>) => OrderedBy(View, sortKey, sortOrder)

\* players of a lineup, slot by slot
LineupSize(e) == Len(e.gkp) + Len(e.def) + Len(e.mid) + Len(e.fwd)

\* C28: every player of the returned lineup is a roster record, stands in
\* the lineup once, sits in the slot of its role code, and the slots hold at
\* most 1 keeper, 5 defenders, 5 midfielders, 3 forwards, 11 players in all.
C28_LineupWellFormed ==
    Done =>
        /\ LineupSet(Eleven) \subseteq { players[i] : i \in 1..Len(players) }
        /\ Cardinality(LineupSet(Eleven)) = LineupSize(Eleven)
        /\ \A code \in ExactCodes :
              \A p \in SlotSet(SlotOf(Eleven, code)) : p.position = code
        /\ Len(Eleven.gkp) <= 1
        /\ Len(Eleven.def) <= 5
        /\ Len(Eleven.mid) <= 5
        /\ Len(Eleven.fwd) <= 3
        /\ LineupSize(Eleven) <= 11

\* a lineup of eleven chosen by the loop from a roster with a spare keeper
C28_Witness ==
    /\ Done
    /\ bestTeam # <<>>
    /\ Cardinality(IdxOf(players, "GKP")) = 2
    /\ Len(players) > 11
    /\ LineupSize(Eleven) = 11
    /\ Len(Eleven.gkp) = 1

(***************************************************************************)
(* Vocabulary of the fetch and column claims.                              *)
(***************************************************************************)
\* a fetchData run has ended
RunEnded == runs > 0 /\ fetchPc = "idle"

\* the error screen is what a finished run left
InErrorState == RunEnded /\ error # NoError

\* C29 (stated as claimed): a run that ended in the error state had its
\* primary source fail and its raw-CSV request fail; the raw CSV is
\* requested only after the primary failed; a finished run leaves loading
\* false; and no step of a run that ends in the error state changes the
\* roster, the view or the team list.
C29_FetchErrorHandling ==
    /\ [](InErrorState => (primaryFailed /\ csvFailed))
    /\ [](csvRequested => primaryFailed)
    /\ [](RunEnded => ~loading)
    /\ [][(fetchPc' # "idle" \/ error' # NoError)
            => UNCHANGED <<players, loaded, filteredData, teams>>]_vars

\* the columns whose membership differs between two sets
Flipped(a, b) == (a \ b) \cup (b \ a)

\* C30: 'name' is visible in every reachable state; a toggleColumn('name')
\* call leaves visibleColumns as it was; a toggleColumn call for any other
\* column changes the membership of that column and of no other.
C30_NameNeverHidden ==
    /\ "name" \in visibleColumns
    /\ lastToggle = "name" => visibleColumns = prevVisible
    /\ lastToggle \notin {"", "name"} =>
          Flipped(visibleColumns, prevVisible) = {lastToggle}

\* 'team' hidden and 'goals_scored' shown, then toggleColumn('name') called
C30_Witness ==
    /\ lastToggle = "name"
    /\ "team" \notin visibleColumns
    /\ "goals_scored" \in visibleColumns
    /\ "name" \in visibleColumns

====
